---- MODULE Spec2Model ----
(***************************************************************************)
(* Comment Wizard (extension.js): keyword highlighting inside comments.   *)
(* Strings are sequences of one-character strings.  A JavaScript object   *)
(* is the sequence of its entries in property (Object.entries) order.     *)
(***************************************************************************)
EXTENDS Integers, Sequences, FiniteSets, TLC

VARIABLES
    \* ---- validation inputs / results (validateKeywords, validateKeyword)
    vKeywords,      \* the mapping handed to validateKeywords
    vMinLength,     \* config minKeywordLength
    vMaxKeywords,   \* config maxKeywords
    vResult,        \* what validateKeywords returned
    vDone,          \* TRUE once validateKeywords has run on the inputs
    \* ---- one (keyword, color) pair handed to validateKeyword
    kKeyword, kColor, kMinLength,
    kResult,        \* what validateKeyword returned
    kDone,          \* TRUE once validateKeyword has run on the pair
    \* ---- logging (module globals logger, errorCount)
    phase,          \* "inactive", "active" or "deactivated"
    logger,         \* "null" or "open"
    errorCount,     \* the global errorCount
    logLines,       \* number of lines appended to the output channel so far
    \* ---- one call of findCommentKeywords
    mFrags,         \* number of pieces the document was built from
    mText,          \* document.getText()
    mLanguage,      \* document.languageId
    mKeyword,       \* the keyword searched for
    mCase,          \* config caseSensitive
    mEnableRegex,   \* config enableRegexKeywords
    mResult,        \* what findCommentKeywords returned
    mDone,          \* TRUE once findCommentKeywords has run on the inputs
    \* ---- the extension and its host
    config,         \* workspace.getConfiguration('commentWizard')
    decorationTypes,\* the Map keyword -> handle, as [keyword, handle] in insertion order
    nextHandle,     \* renderer: handles 1..nextHandle-1 have been created
    disposed,       \* renderer: the handles disposed so far
    hostCalls,      \* renderer: the latest handler's create, dispose, clear and apply
                    \* (setDecorations) calls, in order
    decorations,    \* editor: [handle, ranges] for every handle with ranges applied
    hung,           \* TRUE when a handler is stuck in a loop that never ends
    toasts,         \* messages the latest handler showed the user
    activeEditor,   \* TRUE when window.activeTextEditor is set
    docText,        \* the document's text
    docVersion,     \* number of edits made to the document
    docLanguage,    \* document.languageId
    \* ---- the debounce timer
    timeout,        \* the global timeout: a timer id, 0 for null
    nextTimer,      \* host: next timer id
    timers,         \* host: pending timers [id, remaining]
    sinceEdit,      \* time since the latest edit event handled (capped at QuietPeriod)
    burst,          \* edits handled, each within the quiet period of the one before
    timerScans,     \* scans run by timers since the latest edit event handled
    scanRead,       \* the docVersion the latest timer scan read
    \* ---- theme export / import
    themeFile,      \* the exported file's JSON tokens (<<>> before any export)
    exportPending,  \* exportTheme awaiting the save dialog: its theme and config
    exportConfig,   \* the configuration exportTheme read for themeFile
    importState,    \* "idle", "running", "done", "rejected" or "failed"
    importQueue,    \* the config.update calls importTheme has still to make
    importFile,     \* the JSON tokens of the file importTheme read
    importConfig,   \* the configuration when importTheme started
    importDisturbed,\* TRUE when a setting was changed while importTheme ran
    imports,        \* number of importTheme commands started
    exports,        \* number of exportTheme commands started
    userChanges,    \* number of settings the user changed
    \* ---- the keyword commands
    removePending,  \* removeKeyword awaiting the quick pick: what it read before
    commands,       \* number of addCustomKeyword / removeKeyword commands started
    \* ---- one call of safeMergeKeywords
    gResult,        \* what safeMergeKeywords returned
    gDone           \* TRUE once safeMergeKeywords has run on the configuration

lvars == <<phase, logger, errorCount, logLines>>
mvars == <<mFrags, mText, mLanguage, mKeyword, mCase, mEnableRegex, mResult, mDone>>
vvars == <<vKeywords, vMinLength, vMaxKeywords, vResult, vDone>>
kvars == <<kKeyword, kColor, kMinLength, kResult, kDone>>
hvars == <<config, decorationTypes, nextHandle, disposed, hostCalls, decorations, hung, toasts>>
dvars == <<activeEditor, docText, docVersion, docLanguage>>
tvars == <<timeout, nextTimer, timers, sinceEdit, burst, timerScans, scanRead>>
cvars == <<removePending, commands>>
gvars == <<gResult, gDone>>
evars == <<themeFile, exportPending, exportConfig, importState, importQueue, importFile,
           importConfig, importDisturbed, imports, exports, userChanges>>
xvars == <<evars, cvars, gvars>>
svars == <<hvars, dvars, tvars, xvars>>
vars == <<vvars, kvars, lvars, mvars, svars>>

(***************************************************************************)
(* Characters and strings                                                  *)
(***************************************************************************)
Digits == {"0", "1", "2", "3", "4", "5", "6", "7", "8", "9"}
UpperAF == {"A", "B", "C", "D", "E", "F"}
LowerAF == {"a", "b", "c", "d", "e", "f"}
Upper == UpperAF \cup {"G", "H", "I", "J", "K", "L", "M", "N", "O", "P", "Q",
                       "R", "S", "T", "U", "V", "W", "X", "Y", "Z"}
Lower == LowerAF \cup {"g", "h", "i", "j", "k", "l", "m", "n", "o", "p", "q",
                       "r", "s", "t", "u", "v", "w", "x", "y", "z"}

\* [a-zA-Z0-9_-]
KeywordChars == Upper \cup Lower \cup Digits \cup {"_", "-"}
\* [0-9A-F] under the i flag
HexChars == Digits \cup UpperAF \cup LowerAF
\* \w
WordChars == Upper \cup Lower \cup Digits \cup {"_"}

\* Characters of s at positions a..b (empty when a > b).
Slice(s, a, b) == [i \in 1..(b - a + 1) |-> s[a + i - 1]]

\* A JavaScript string value.
Str(s) == [type |-> "string", val |-> s]
\* A JavaScript number value (the digits are kept only to tell values apart).
Num(s) == [type |-> "number", val |-> s]

Entry(k, c) == [keyword |-> k, color |-> c]

\* Object.keys
Keys(obj) == [i \in 1..Len(obj) |-> obj[i].keyword]
KeySet(obj) == {obj[i].keyword : i \in 1..Len(obj)}

(***************************************************************************)
(* Validation                                                              *)
(***************************************************************************)
\* /^#([0-9A-F]{3}|[0-9A-F]{6})$/i.test(color)
isValidColor(color) ==
    /\ Len(color) \in {4, 7}
    /\ color[1] = "#"
    /\ \A i \in 2..Len(color) : color[i] \in HexChars

\* /^[a-zA-Z0-9_-]+$/.test(keyword)
matchesKeywordCharset(keyword) ==
    /\ Len(keyword) >= 1
    /\ \A i \in 1..Len(keyword) : keyword[i] \in KeywordChars

\* keyword.startsWith('/') && keyword.endsWith('/') && keyword.length > 2
isRegexKeyword(keyword) ==
    /\ Len(keyword) > 2
    /\ keyword[1] = "/"
    /\ keyword[Len(keyword)] = "/"

\* Object keys are always strings, so typeof keyword === 'string' holds.
validateKeyword(keyword, color, minLength) ==
    /\ Len(keyword) >= minLength
    /\ matchesKeywordCharset(keyword)
    /\ color.type = "string"
    /\ isValidColor(color.val)

\* The same loop without the count >= maxKeywords break.
RECURSIVE validateLoopNoCap(_, _, _, _, _)
validateLoopNoCap(keywords, i, count, minLength, maxKeywords) ==
    IF i > Len(keywords) THEN <<>>
    ELSE IF validateKeyword(keywords[i].keyword, keywords[i].color, minLength)
         THEN <<keywords[i]>> \o
              validateLoopNoCap(keywords, i + 1, count + 1, minLength, maxKeywords)
         ELSE validateLoopNoCap(keywords, i + 1, count, minLength, maxKeywords)

\* The loop of validateKeywords from entry i on, count entries kept so far.
RECURSIVE validateLoop(_, _, _, _, _)
validateLoop(keywords, i, count, minLength, maxKeywords) ==
    IF i > Len(keywords) THEN <<>>
    ELSE IF count >= maxKeywords THEN <<>>
    ELSE IF validateKeyword(keywords[i].keyword, keywords[i].color, minLength)
         THEN <<keywords[i]>> \o
              validateLoop(keywords, i + 1, count + 1, minLength, maxKeywords)
         ELSE validateLoop(keywords, i + 1, count, minLength, maxKeywords)

validateKeywords(keywords, minLength, maxKeywords) ==
    validateLoop(keywords, 1, 0, minLength, maxKeywords)

(***************************************************************************)
(* Comment-pattern table                                                   *)
(***************************************************************************)
\* { type: 'single', pattern: /<open>.*$/gm }
Single(open) == [type |-> "single", open |-> open, close |-> <<>>]
\* { type: 'multi', pattern: /<open>[\s\S]*?<close>/gm }
Multi(open, close) == [type |-> "multi", open |-> open, close |-> close]

SlashSlash == Single(<<"/", "/">>)
SlashStar == Multi(<<"/", "*">>, <<"*", "/">>)
Hash == Single(<<"#">>)
DashDash == Single(<<"-", "-">>)
Markup == Multi(<<"<", "!", "-", "-">>, <<"-", "-", ">">>)
TripleDouble == Multi(<<"\"", "\"", "\"">>, <<"\"", "\"", "\"">>)
TripleSingle == Multi(<<"'", "'", "'">>, <<"'", "'", "'">>)
BeginEnd == Multi(<<"=", "b", "e", "g", "i", "n">>, <<"=", "e", "n", "d">>)
LuaBlock == Multi(<<"-", "-", "[", "[">>, <<"]", "]">>)

CStyle == {"javascript", "typescript", "java", "c", "cpp", "csharp", "go",
           "rust", "kotlin", "swift", "dart", "scala"}
HashStyle == {"yaml", "shell", "bash", "dockerfile", "powershell", "r", "perl"}

\* The table's own keys.
TableKeys == CStyle \cup HashStyle \cup
             {"python", "html", "xml", "css", "sql", "php", "ruby", "lua"}

\* The table is an object literal, so patterns[languageId] also finds the
\* members every object inherits from Object.prototype: functions, with their
\* length property, and __proto__, an object without one (length -1 here).
ObjectPrototype ==
    [n \in {"constructor", "hasOwnProperty", "isPrototypeOf", "propertyIsEnumerable",
            "toString", "toLocaleString", "valueOf", "__proto__"} |->
        [member |-> n,
         length |-> IF n \in {"toString", "toLocaleString", "valueOf"} THEN 0
                    ELSE IF n = "__proto__" THEN -1 ELSE 1]]

\* patterns[languageId] || []: the descriptor list of an own key, the
\* inherited member of that name, or the empty list.
getCommentPatterns(languageId) ==
    IF languageId \in CStyle THEN <<SlashSlash, SlashStar>>
    ELSE IF languageId \in HashStyle THEN <<Hash>>
    ELSE IF languageId = "python" THEN <<Hash, TripleDouble, TripleSingle>>
    ELSE IF languageId \in {"html", "xml"} THEN <<Markup>>
    ELSE IF languageId = "css" THEN <<SlashStar>>
    ELSE IF languageId = "sql" THEN <<DashDash, SlashStar>>
    ELSE IF languageId = "php" THEN <<SlashSlash, Hash, SlashStar>>
    ELSE IF languageId = "ruby" THEN <<Hash, BeginEnd>>
    ELSE IF languageId = "lua" THEN <<DashDash, LuaBlock>>
    ELSE IF languageId \in DOMAIN ObjectPrototype THEN ObjectPrototype[languageId]
    ELSE <<>>

(***************************************************************************)
(* Regular expressions (the part of RegExp the patterns and keywords use) *)
(* Offsets are 0-based as in JavaScript: the character at offset o of s   *)
(* is s[o + 1].                                                           *)
(***************************************************************************)
LineTerminators == {"\n", "\r"}

\* tok occurs in s at offset o.
StartsAt(s, tok, o) ==
    /\ o >= 0
    /\ o + Len(tok) <= Len(s)
    /\ \A j \in 1..Len(tok) : s[o + j] = tok[j]

Least(S) == CHOOSE x \in S : \A y \in S : x <= y

NoMatch == [found |-> FALSE, index |-> 0, end |-> 0]
Match(i, e) == [found |-> TRUE, index |-> i, end |-> e]

\* Offsets at which a block pattern ends the comment opened at offset i
\* (the end of every later close token).
BlockEnds(d, text, i) ==
    {j + Len(d.close) : j \in {k \in (i + Len(d.open))..Len(text) : StartsAt(text, d.close, k)}}

\* A block pattern taking the last close token instead of the nearest one.
execBlockGreedy(d, text, lastIndex) ==
    LET starts == {i \in lastIndex..Len(text) :
                      StartsAt(text, d.open, i) /\ BlockEnds(d, text, i) # {}}
    IN  IF starts = {} THEN NoMatch
        ELSE LET i == Least(starts)
             IN  Match(i, CHOOSE e \in BlockEnds(d, text, i) :
                              \A f \in BlockEnds(d, text, i) : f <= e)

\* /<open>[\s\S]*?<close>/gm .exec(text) from lastIndex: the leftmost open
\* token that some close token follows, up to the nearest such close token.
execBlock(d, text, lastIndex) ==
    LET starts == {i \in lastIndex..Len(text) :
                      StartsAt(text, d.open, i) /\ BlockEnds(d, text, i) # {}}
    IN  IF starts = {} THEN NoMatch
        ELSE LET i == Least(starts)
             IN  Match(i, Least(BlockEnds(d, text, i)))

\* /<open>.*$/gm .exec(text) from lastIndex: the leftmost open token, up to
\* the end of its line ('.' matches no line terminator; with the m flag '$'
\* matches before one).
execLine(d, text, lastIndex) ==
    LET starts == {i \in lastIndex..Len(text) : StartsAt(text, d.open, i)}
    IN  IF starts = {} THEN NoMatch
        ELSE LET i == Least(starts)
                 stops == {e \in (i + Len(d.open))..Len(text) :
                              e = Len(text) \/ text[e + 1] \in LineTerminators}
             IN  Match(i, Least(stops))

\* pattern.pattern.exec(text) with pattern.pattern.lastIndex = lastIndex.
execPattern(d, text, lastIndex) ==
    IF lastIndex > Len(text) THEN NoMatch
    ELSE IF d.type = "single" THEN execLine(d, text, lastIndex)
    ELSE execBlock(d, text, lastIndex)

\* string.replace(/[.*+?^${}()|[\]\\]/g, '\\$&')
RegexSpecials == {".", "*", "+", "?", "^", "$", "{", "}", "(", ")", "|", "[", "]", "\\"}

RECURSIVE escapeRegExp(_)
escapeRegExp(string) ==
    IF string = <<>> THEN <<>>
    ELSE (IF Head(string) \in RegexSpecials
          THEN <<"\\", Head(string)>> ELSE <<Head(string)>>)
         \o escapeRegExp(Tail(string))

\* new RegExp(source): the atoms of the source, or a SyntaxError.  Covered:
\* literal characters, '.', the escapes \b \s \S \w \W \d \D and \<char>, and
\* the quantifiers * + ? after an atom.  A quantifier with nothing to repeat,
\* a trailing backslash, and a '(' , ')' or '[' left unbalanced do not compile.
Quantifiers == {"*", "+", "?"}
ClassEscapes == {"s", "S", "w", "W", "d", "D"}
Atom(kind, c, q) == [kind |-> kind, c |-> c, q |-> q]
SyntaxError == [ok |-> FALSE, atoms |-> <<>>]

RECURSIVE parseFrom(_, _)
parseFrom(src, i) ==
    IF i > Len(src) THEN [ok |-> TRUE, atoms |-> <<>>]
    ELSE IF src[i] \in Quantifiers \cup {"(", ")", "["} THEN SyntaxError
    ELSE IF src[i] = "\\" /\ i = Len(src) THEN SyntaxError
    ELSE
      LET esc == src[i] = "\\"
          w == IF esc THEN 2 ELSE 1
          kind == IF esc /\ src[i + 1] = "b" THEN "wordb"
                  ELSE IF esc /\ src[i + 1] \in ClassEscapes THEN "class"
                  ELSE IF ~esc /\ src[i] = "." THEN "any"
                  ELSE "char"
          c == IF esc THEN src[i + 1] ELSE src[i]
          quantified == i + w <= Len(src) /\ src[i + w] \in Quantifiers
          q == IF quantified THEN src[i + w] ELSE "1"
          rest == parseFrom(src, i + w + (IF quantified THEN 1 ELSE 0))
      IN  IF kind = "wordb" /\ quantified THEN SyntaxError
          ELSE IF ~rest.ok THEN SyntaxError
          ELSE [ok |-> TRUE, atoms |-> <<Atom(kind, c, q)>> \o rest.atoms]

compileRegExp(src) == parseFrom(src, 1)

LowerSeq == <<"a", "b", "c", "d", "e", "f", "g", "h", "i", "j", "k", "l", "m",
              "n", "o", "p", "q", "r", "s", "t", "u", "v", "w", "x", "y", "z">>
UpperSeq == <<"A", "B", "C", "D", "E", "F", "G", "H", "I", "J", "K", "L", "M",
              "N", "O", "P", "Q", "R", "S", "T", "U", "V", "W", "X", "Y", "Z">>

\* Canonicalize under the i flag.
ToUpper(ch) ==
    IF ch \in Lower THEN UpperSeq[CHOOSE i \in 1..26 : LowerSeq[i] = ch] ELSE ch

Whitespace == {" ", "\t", "\n", "\r"}

\* Atom a matches the single character ch; ci is the i flag.
AtomMatches(a, ch, ci) ==
    IF a.kind = "char" THEN (IF ci THEN ToUpper(a.c) = ToUpper(ch) ELSE a.c = ch)
    ELSE IF a.kind = "any" THEN ch \notin LineTerminators
    ELSE IF a.c = "s" THEN ch \in Whitespace
    ELSE IF a.c = "S" THEN ch \notin Whitespace
    ELSE IF a.c = "w" THEN ch \in WordChars
    ELSE IF a.c = "W" THEN ch \notin WordChars
    ELSE IF a.c = "d" THEN ch \in Digits
    ELSE ch \notin Digits

IsWordAt(s, o) == o >= 0 /\ o < Len(s) /\ s[o + 1] \in WordChars

\* \b holds at offset o of s.
WordBoundary(s, o) == IsWordAt(s, o - 1) # IsWordAt(s, o)

\* Number of consecutive characters of s from offset o that atom a matches.
RECURSIVE Run(_, _, _, _)
Run(a, s, o, ci) ==
    IF o < Len(s) /\ AtomMatches(a, s[o + 1], ci) THEN 1 + Run(a, s, o + 1, ci) ELSE 0

\* Backtracking match of atoms k.. at offset o of s: the end offset of the
\* match, or -1.  Quantifiers are greedy.
RECURSIVE matchAtoms(_, _, _, _, _)
RECURSIVE tryCount(_, _, _, _, _, _, _)
matchAtoms(atoms, k, s, o, ci) ==
    IF k > Len(atoms) THEN o
    ELSE LET a == atoms[k]
         IN  IF a.kind = "wordb"
             THEN (IF WordBoundary(s, o) THEN matchAtoms(atoms, k + 1, s, o, ci) ELSE -1)
             ELSE IF a.q = "1"
             THEN (IF o < Len(s) /\ AtomMatches(a, s[o + 1], ci)
                   THEN matchAtoms(atoms, k + 1, s, o + 1, ci) ELSE -1)
             ELSE LET n == Run(a, s, o, ci)
                  IN  tryCount(atoms, k, s, o, ci,
                               IF a.q = "?" /\ n > 1 THEN 1 ELSE n,
                               IF a.q = "+" THEN 1 ELSE 0)

tryCount(atoms, k, s, o, ci, c, min) ==
    IF c < min THEN -1
    ELSE LET r == matchAtoms(atoms, k + 1, s, o + c, ci)
         IN  IF r # -1 THEN r ELSE tryCount(atoms, k, s, o, ci, c - 1, min)

\* The leftmost offset with a match among ends (offset -> end offset or -1).
FirstMatch(ends) ==
    IF \A o \in DOMAIN ends : ends[o] = -1 THEN NoMatch
    ELSE Match(Least({o \in DOMAIN ends : ends[o] # -1}),
               ends[Least({o \in DOMAIN ends : ends[o] # -1})])

\* regex.exec(s) for a g-flag regex with regex.lastIndex = lastIndex.
execRegExp(atoms, s, lastIndex, ci) ==
    IF lastIndex > Len(s) THEN NoMatch
    ELSE FirstMatch([o \in lastIndex..Len(s) |-> matchAtoms(atoms, 1, s, o, ci)])

(***************************************************************************)
(* Keyword matcher                                                         *)
(***************************************************************************)
\* document.positionAt(offset) clamps the offset into the document.
positionAt(text, offset) ==
    IF offset < 0 THEN 0 ELSE IF offset > Len(text) THEN Len(text) ELSE offset

\* new vscode.Range(positionAt(startOffset), positionAt(endOffset))
Range(text, startOffset, endOffset) ==
    [start |-> positionAt(text, startOffset), end |-> positionAt(text, endOffset)]

\* The inner while loop: every exec of the g-flag keyword regex on one
\* comment.  exec leaves lastIndex at the end of its match, so an empty match
\* is found again by the next exec and the loop never ends (diverged).
\* keywordStep is the loop body for the exec result m.
RECURSIVE keywordLoop(_, _, _, _)
RECURSIVE keywordStep(_, _, _, _)
keywordLoop(atoms, commentText, lastIndex, ci) ==
    keywordStep(atoms, commentText, ci, execRegExp(atoms, commentText, lastIndex, ci))

keywordStep(atoms, commentText, ci, m) ==
    IF ~m.found THEN [matches |-> <<>>, diverged |-> FALSE]
    ELSE IF m.end = m.index THEN [matches |-> <<m>>, diverged |-> TRUE]
    ELSE LET rest == keywordLoop(atoms, commentText, m.end, ci)
         IN  [matches |-> <<m>> \o rest.matches, diverged |-> rest.diverged]

\* Ranges that end where they start.
pushEmptyRanges(text, commentStart, km, fixedLen) ==
    [i \in 1..Len(km) |->
        Range(text, commentStart + km[i].index, commentStart + km[i].index)]

\* The ranges pushed for the keyword matches km of the comment at commentStart.
\* fixedLen is keyword.length on the literal path and -1 (the match's own
\* length) on the regex path.
pushRanges(text, commentStart, km, fixedLen) ==
    [i \in 1..Len(km) |->
        Range(text, commentStart + km[i].index,
              commentStart + km[i].index +
                (IF fixedLen >= 0 THEN fixedLen ELSE km[i].end - km[i].index))]

\* The outer while loop over one descriptor, from lastIndex on.  commentStep
\* is the loop body for the comment match; commentNext continues after the
\* inner loop returned km.
RECURSIVE commentLoop(_, _, _, _, _, _)
RECURSIVE commentStep(_, _, _, _, _, _)
RECURSIVE commentNext(_, _, _, _, _, _, _)
commentLoop(d, text, lastIndex, atoms, ci, fixedLen) ==
    commentStep(d, text, execPattern(d, text, lastIndex), atoms, ci, fixedLen)

commentStep(d, text, match, atoms, ci, fixedLen) ==
    IF ~match.found THEN [ranges |-> <<>>, diverged |-> FALSE]
    ELSE commentNext(d, text, match, atoms, ci, fixedLen,
                     keywordLoop(atoms, Slice(text, match.index + 1, match.end), 0, ci))

commentNext(d, text, match, atoms, ci, fixedLen, km) ==
    IF km.diverged
    THEN [ranges |-> pushRanges(text, match.index, km.matches, fixedLen),
          diverged |-> TRUE]
    ELSE LET rest == commentLoop(d, text, match.end, atoms, ci, fixedLen)
         IN  [ranges |-> pushRanges(text, match.index, km.matches, fixedLen)
                           \o rest.ranges,
              diverged |-> rest.diverged]

\* The result of one descriptor's try block.
PatternResult(ranges, lastIndex, errors, diverged) ==
    [ranges |-> ranges, lastIndex |-> lastIndex, errors |-> errors,
     diverged |-> diverged]

\* A try block that leaves the descriptor's lastIndex behind the first
\* comment it found.
scanLeaky(d, text, li, first, re, ci, fixedLen, r) ==
    IF ~first.found THEN PatternResult(<<>>, 0, 0, FALSE)
    ELSE IF ~re.ok THEN PatternResult(<<>>, first.end, 1, FALSE)
    ELSE PatternResult(r.ranges, first.end, 0, r.diverged)

\* The try block once the first comment match and the compiled keyword regex
\* are known.
scanFrom(d, text, li, first, re, ci, fixedLen, r) ==
    IF ~first.found THEN PatternResult(<<>>, 0, 0, FALSE)
    ELSE IF ~re.ok THEN PatternResult(<<>>, first.end, 1, FALSE)
    ELSE PatternResult(r.ranges, 0, 0, r.diverged)

\* One iteration of commentPatterns.forEach: the try block for descriptor d
\* whose regex object has lastIndex li.  The keyword regex is compiled inside
\* the while loop, so a source that does not compile throws on the first
\* comment found; the catch logs it and the lastIndex reset is skipped.
scanPattern(d, text, li, source, ci, fixedLen) ==
    scanFrom(d, text, li, execPattern(d, text, li), compileRegExp(source), ci, fixedLen,
             commentLoop(d, text, li, compileRegExp(source).atoms, ci, fixedLen))

\* commentPatterns.forEach from descriptor n on; lastIdx[n] is the lastIndex
\* of descriptor n's regex object.  patternsStep continues after descriptor
\* n's try block returned r.
RECURSIVE patternsLoop(_, _, _, _, _, _, _)
RECURSIVE patternsStep(_, _, _, _, _, _, _, _)
patternsLoop(patterns, n, text, lastIdx, source, ci, fixedLen) ==
    IF n > Len(patterns)
    THEN [ranges |-> <<>>, lastIdx |-> lastIdx, errors |-> 0, diverged |-> FALSE]
    ELSE patternsStep(patterns, n, text, lastIdx, source, ci, fixedLen,
                      scanPattern(patterns[n], text, lastIdx[n], source, ci, fixedLen))

patternsStep(patterns, n, text, lastIdx, source, ci, fixedLen, r) ==
    IF r.diverged
    THEN [ranges |-> r.ranges, lastIdx |-> [lastIdx EXCEPT ![n] = r.lastIndex],
          errors |-> r.errors, diverged |-> TRUE]
    ELSE LET rest == patternsLoop(patterns, n + 1, text,
                                  [lastIdx EXCEPT ![n] = r.lastIndex],
                                  source, ci, fixedLen)
         IN  [ranges |-> r.ranges \o rest.ranges, lastIdx |-> rest.lastIdx,
              errors |-> r.errors + rest.errors, diverged |-> rest.diverged]

\* findRegexKeywords: the user regex is regexKeyword.slice(1, -1).
findRegexKeywords(text, regexKeyword, commentPatterns, lastIdx, caseSensitive) ==
    patternsLoop(commentPatterns, 1, text, lastIdx,
                 Slice(regexKeyword, 2, Len(regexKeyword) - 1), ~caseSensitive, -1)

\* The literal path without the word-boundary assertions.
literalSourceNoBoundary(keyword) == escapeRegExp(keyword)

\* The keyword regex of the literal path: new RegExp(`\\b${escapeRegExp(keyword)}\\b`).
literalSource(keyword) == <<"\\", "b">> \o escapeRegExp(keyword) \o <<"\\", "b">>

\* findCommentKeywords(document, keyword, commentPatterns, caseSensitive);
\* enableRegex is config.get('enableRegexKeywords', false).
findCommentKeywords(text, keyword, commentPatterns, lastIdx, caseSensitive, enableRegex) ==
    IF enableRegex /\ isRegexKeyword(keyword)
    THEN findRegexKeywords(text, keyword, commentPatterns, lastIdx, caseSensitive)
    ELSE patternsLoop(commentPatterns, 1, text, lastIdx,
                      literalSource(keyword), ~caseSensitive, Len(keyword))

\* The lastIndex of freshly created pattern regex objects.
FreshIdx(patterns) == [n \in 1..Len(patterns) |-> 0]

(***************************************************************************)
(* Logging                                                                 *)
(***************************************************************************)
MAX_ERRORS == 10

\* The log state a handler threads through its calls.
LogState(lg, ec, ll) == [logger |-> lg, errorCount |-> ec, logLines |-> ll]

\* logError(message, error): the message line and, with an error object, the
\* details line are appended first; then errorCount is incremented and, above
\* MAX_ERRORS, one more line is appended.
logError(L, hasError) ==
    LET appended == IF L.logger = "open" THEN (IF hasError THEN 2 ELSE 1) ELSE 0
        count == L.errorCount + 1
        tooMany == IF count > MAX_ERRORS /\ L.logger = "open" THEN 1 ELSE 0
    IN  [L EXCEPT !.errorCount = count, !.logLines = @ + appended + tooMany]

\* logInfo(message)
logInfo(L) ==
    [L EXCEPT !.logLines = IF L.logger = "open" THEN @ + 1 ELSE @]

NoResult == [ranges |-> <<>>, lastIdx |-> <<>>, errors |-> 0, diverged |-> FALSE]
IdleMatch ==
    /\ mFrags = 0 /\ mText = <<>> /\ mLanguage = "" /\ mKeyword = <<>> /\ mCase = FALSE
    /\ mEnableRegex = FALSE /\ mResult = NoResult /\ mDone = FALSE
IdleLog == phase = "inactive" /\ logger = "null" /\ errorCount = 0 /\ logLines = 0
IdleValidate ==
    /\ vKeywords = <<>> /\ vMinLength = 2 /\ vMaxKeywords = 0
    /\ vResult = <<>> /\ vDone = FALSE
IdleKeyword ==
    /\ kKeyword = <<>> /\ kColor = Str(<<>>) /\ kMinLength = 2
    /\ kResult = FALSE /\ kDone = FALSE

(***************************************************************************)
(* JavaScript values and the configuration                                 *)
(* A value is [type, val]; val is the characters of a string or number,   *)
(* the entries [keyword, color] (key, value) of an object in property     *)
(* order, <<"true">> or <<"false">> for a boolean.  Property names of     *)
(* the theme file and enum strings are kept whole, as one element.        *)
(***************************************************************************)
Undefined == [type |-> "undefined", val |-> <<>>]
Null == [type |-> "null", val |-> <<>>]
Obj(entries) == [type |-> "object", val |-> entries]
Bool(b) == [type |-> "boolean", val |-> IF b THEN <<"true">> ELSE <<"false">>]
\* An array: val is the sequence of its elements.
Arr(elements) == [type |-> "array", val |-> elements]

\* typeof v
typeOf(v) == IF v.type \in {"object", "null", "array"} THEN "object" ELSE v.type

\* v in a condition: if (v), v ? a : b, !v
truthy(v) ==
    IF v.type \in {"undefined", "null"} THEN FALSE
    ELSE IF v.type = "string" THEN v.val # <<>>
    ELSE IF v.type = "boolean" THEN v.val = <<"true">>
    ELSE IF v.type = "number" THEN v.val # <<"0">>
    ELSE TRUE

\* v.name: undefined when v has no such property.
get(v, name) ==
    IF v.type = "object" /\ \E i \in 1..Len(v.val) : v.val[i].keyword = name
    THEN v.val[CHOOSE i \in 1..Len(v.val) : v.val[i].keyword = name].color
    ELSE Undefined

\* The property name of array index n (n < 10).
DigitSeq == <<"0", "1", "2", "3", "4", "5", "6", "7", "8", "9">>
IndexKey(n) == <<DigitSeq[n + 1]>>

\* A property name that is an array index (one digit here): such properties
\* come first in property order, in ascending order.
isIndexKey(k) == Len(k) = 1 /\ k[1] \in Digits
IndexOf(k) == (CHOOSE n \in 1..10 : DigitSeq[n] = k[1]) - 1

\* obj[e.keyword] = e.color: an existing property keeps its place, a new
\* index property goes after the smaller indices, any other new one last.
setProp(obj, e) ==
    IF e.keyword \in KeySet(obj)
    THEN [i \in 1..Len(obj) |-> IF obj[i].keyword = e.keyword THEN e ELSE obj[i]]
    ELSE IF isIndexKey(e.keyword)
    THEN SelectSeq(obj, LAMBDA x : isIndexKey(x.keyword)
                                     /\ IndexOf(x.keyword) < IndexOf(e.keyword))
         \o <<e>> \o
         SelectSeq(obj, LAMBDA x : ~(isIndexKey(x.keyword)
                                       /\ IndexOf(x.keyword) < IndexOf(e.keyword)))
    ELSE Append(obj, e)

\* { ...a, ...b } on the entries of a and b.
RECURSIVE spread(_, _)
spread(a, b) == IF b = <<>> THEN a ELSE spread(setProp(a, Head(b)), Tail(b))

\* The own enumerable entries a spread copies from v: the properties of an
\* object, index -> element of an array, index -> character of a string,
\* none of null, undefined, a number or a boolean.
entriesOf(v) ==
    IF v.type = "object" THEN v.val
    ELSE IF v.type = "array" THEN [i \in 1..Len(v.val) |-> Entry(IndexKey(i - 1), v.val[i])]
    ELSE IF v.type = "string"
    THEN [i \in 1..Len(v.val) |-> Entry(IndexKey(i - 1), Str(<<v.val[i]>>))]
    ELSE <<>>

TODO == <<"T", "O", "D", "O">>
FIXME == <<"F", "I", "X", "M", "E">>
RegexTODO == <<"/", "T", "O", "D", "O", "/">>

getDefaultKeywords ==
    << Entry(TODO, Str(<<"#", "0", "0", "B", "F", "F", "F">>)),
       Entry(FIXME, Str(<<"#", "F", "F", "4", "5", "0", "0">>)),
       Entry(<<"N", "O", "T", "E">>, Str(<<"#", "3", "2", "C", "D", "3", "2">>)),
       Entry(<<"W", "A", "R", "N", "I", "N", "G">>, Str(<<"#", "F", "F", "D", "7", "0", "0">>)),
       Entry(<<"H", "A", "C", "K">>, Str(<<"#", "9", "9", "3", "2", "C", "C">>)),
       Entry(<<"B", "U", "G">>, Str(<<"#", "F", "F", "0", "0", "0", "0">>)),
       Entry(<<"R", "E", "V", "I", "E", "W">>, Str(<<"#", "F", "F", "6", "9", "B", "4">>)),
       Entry(<<"D", "E", "P", "R", "E", "C", "A", "T", "E", "D">>,
             Str(<<"#", "8", "0", "8", "0", "8", "0">>)) >>

\* The settings package.json registers, with their defaults; config.get
\* returns false for enableRegexKeywords, which package.json does not register.
DefaultConfig ==
    [enabled |-> TRUE,
     keywords |-> Obj(getDefaultKeywords),
     customKeywords |-> Obj(<<>>),
     caseSensitive |-> Bool(FALSE),
     highlightStyle |-> Str(<<"text">>),
     fontWeight |-> Str(<<"bold">>),
     showIcons |-> Bool(FALSE),
     enableRegexKeywords |-> Bool(FALSE),
     minKeywordLength |-> 2,
     maxKeywords |-> 50]

RegisteredKeys ==
    {"enabled", "keywords", "customKeywords", "caseSensitive", "highlightStyle",
     "fontWeight", "showIcons", "regexPatterns", "excludeFromEnd",
     "minKeywordLength", "maxKeywords"}

QuietPeriod == 100

NoExport == [theme |-> Undefined, config |-> DefaultConfig]
NoPicker == [open |-> FALSE, customKeywords |-> Undefined, list |-> <<>>]

IdleHandlers ==
    /\ config = DefaultConfig /\ decorationTypes = <<>> /\ nextHandle = 1
    /\ disposed = {} /\ hostCalls = <<>> /\ decorations = {} /\ hung = FALSE
    /\ toasts = <<>>
IdleTimers ==
    /\ timeout = 0 /\ nextTimer = 1 /\ timers = {} /\ sinceEdit = QuietPeriod
    /\ burst = 0 /\ timerScans = 0 /\ scanRead = 0
IdleTheme ==
    /\ themeFile = <<>> /\ exportPending = NoExport /\ exportConfig = DefaultConfig
    /\ importState = "idle" /\ importQueue = <<>> /\ importFile = <<>>
    /\ importConfig = DefaultConfig /\ importDisturbed = FALSE /\ imports = 0 /\ exports = 0
    /\ userChanges = 0
IdleCommands == removePending = NoPicker /\ commands = 0
IdleMerge == gResult = <<>> /\ gDone = FALSE
IdleDocument ==
    /\ activeEditor = FALSE /\ docText = <<>> /\ docVersion = 0 /\ docLanguage = ""
IdleSystem ==
    IdleHandlers /\ IdleTimers /\ IdleTheme /\ IdleCommands /\ IdleMerge /\ IdleDocument

(***************************************************************************)
(* validateKeyword on bounded inputs                                       *)
(***************************************************************************)
\* Tokens offered as keys: literal, too short, bad character, regex wrappers.
Tokens == << TODO,
             <<"X">>,
             <<"a", "-", "b", "_", "9">>,
             <<"N", "O", " ", "T", "E">>,
             RegexTODO,
             <<"/", "/">>,
             <<"/", "X", "/">> >>

\* Colors offered as values.
Colors == << Str(<<"#", "F", "F", "F">>),
             Str(<<"#", "f", "f", "4", "5", "0", "0">>),
             Str(<<"#", "F", "F", "F", "F">>),
             Str(<<"#", "G", "G", "G">>),
             Str(<<"F", "F", "F", "F">>),
             Str(<<"r", "e", "d">>),
             Num(<<"1", "2", "3">>) >>

MaxMinLength == 3

InitKeyword ==
    /\ \E t \in 1..Len(Tokens) : kKeyword = Tokens[t]
    /\ \E c \in 1..Len(Colors) : kColor = Colors[c]
    /\ kMinLength \in 1..MaxMinLength
    /\ kResult = FALSE
    /\ kDone = FALSE
    /\ IdleValidate /\ IdleLog /\ IdleMatch /\ IdleSystem

ValidateOne ==
    /\ ~kDone
    /\ kResult' = validateKeyword(kKeyword, kColor, kMinLength)
    /\ kDone' = TRUE
    /\ UNCHANGED <<kKeyword, kColor, kMinLength, vvars, lvars, mvars, svars>>

NextKeyword == ValidateOne

SpecKeyword == InitKeyword /\ [][NextKeyword]_vars

\* The hex-color grammar: # followed by 3 or 6 hex digits, any case.
HexColorGrammar(color) ==
    /\ color.type = "string"
    /\ \E n \in {3, 6} :
          /\ Len(color.val) = n + 1
          /\ color.val[1] = "#"
          /\ \A i \in 2..(n + 1) : color.val[i] \in HexChars

\* C5: validateKeyword accepts a (token, color) pair if and only if the token
\* is at least minKeywordLength long, the token matches [A-Za-z0-9_-]+ or is
\* a /pattern/ regex wrapper, and the color matches the hex-color grammar.
C5_AcceptsIffValid ==
    kDone =>
        (kResult <=>
            /\ Len(kKeyword) >= kMinLength
            /\ matchesKeywordCharset(kKeyword) \/ isRegexKeyword(kKeyword)
            /\ HexColorGrammar(kColor))

(***************************************************************************)
(* validateKeywords on bounded inputs                                      *)
(***************************************************************************)
MaxEntries == 3

\* Keys and values of the mappings handed to validateKeywords.
MapTokens == << TODO, FIXME, <<"a", "-", "b", "_", "9">>, <<"X">>, RegexTODO >>
MapColors == << Str(<<"#", "F", "F", "F">>), Num(<<"1", "2", "3">>) >>

\* Sequences of at most n distinct elements of S.
DistinctSeqs(S, n) ==
    UNION {{s \in [1..m -> S] : \A i, j \in 1..m : i # j => s[i] # s[j]} : m \in 0..n}

InitValidate ==
    /\ \E ks \in DistinctSeqs(1..Len(MapTokens), MaxEntries) :
       \E cs \in [1..Len(ks) -> 1..Len(MapColors)] :
          vKeywords = [i \in 1..Len(ks) |-> Entry(MapTokens[ks[i]], MapColors[cs[i]])]
    /\ vMinLength \in 1..2
    /\ vMaxKeywords \in 0..MaxEntries
    /\ vResult = <<>>
    /\ vDone = FALSE
    /\ IdleKeyword /\ IdleLog /\ IdleMatch /\ IdleSystem

Validate ==
    /\ ~vDone
    /\ vResult' = validateKeywords(vKeywords, vMinLength, vMaxKeywords)
    /\ vDone' = TRUE
    /\ UNCHANGED <<vKeywords, vMinLength, vMaxKeywords, kvars, lvars, mvars, svars>>

NextValidate == Validate

SpecValidate == InitValidate /\ [][NextValidate]_vars

\* The entries of obj that pass validateKeyword, in the order of obj.
ValidEntries(obj, minLength) ==
    SelectSeq(obj, LAMBDA e : validateKeyword(e.keyword, e.color, minLength))

Min(a, b) == IF a <= b THEN a ELSE b

\* C4: the set returned by validateKeywords has at most maxKeywords entries,
\* and they are exactly the first maxKeywords valid entries of the mapping in
\* its entry order; later entries are dropped.
C4_KeywordCap ==
    vDone =>
        /\ Len(vResult) <= vMaxKeywords
        /\ vResult = SubSeq(ValidEntries(vKeywords, vMinLength), 1,
                            Min(vMaxKeywords, Len(ValidEntries(vKeywords, vMinLength))))

\* The cap acted: more valid entries than maxKeywords, and some were kept.
C4_Witness ==
    /\ vDone
    /\ vMaxKeywords >= 1
    /\ Len(vResult) = vMaxKeywords
    /\ Len(ValidEntries(vKeywords, vMinLength)) > vMaxKeywords
    /\ \E i \in 1..Len(vKeywords) :
          ~validateKeyword(vKeywords[i].keyword, vKeywords[i].color, vMinLength)

(***************************************************************************)
(* findCommentKeywords on bounded inputs                                   *)
(***************************************************************************)
MaxFrags == 4

\* Documents are built from these pieces.
Frags == << <<"/", "/">>, <<"/", "*">>, <<"*", "/">>, <<"/", "*", "*", "/">>,
            TODO, <<"X", "-">>, <<"\n">> >>

todo == <<"t", "o", "d", "o">>
XdashX == <<"X", "-", "X">>
RegexTany == <<"/", "T", ".", "*", "/">>
\* A user regex that matches the empty string, and one that does not compile.
RegexXstar == <<"/", "X", "*", "/">>
RegexStar == <<"/", "*", "/">>

\* (keyword, enableRegexKeywords) pairs the matcher is called with.
MatchCases == << <<TODO, FALSE>>, <<todo, FALSE>>, <<XdashX, FALSE>>,
                 <<RegexTany, TRUE>>, <<RegexXstar, TRUE>>, <<RegexStar, TRUE>> >>

MatchLanguages == {"cpp"}

InitMatch == IdleMatch /\ IdleValidate /\ IdleKeyword /\ IdleLog /\ IdleSystem

\* The document grows by one piece.
TypeText ==
    /\ ~mDone
    /\ mFrags < MaxFrags
    /\ \E f \in 1..Len(Frags) : mText' = mText \o Frags[f]
    /\ mFrags' = mFrags + 1
    /\ UNCHANGED <<mLanguage, mKeyword, mCase, mEnableRegex, mResult, mDone,
                   vvars, kvars, lvars, svars>>

\* One call of findCommentKeywords with fresh pattern regex objects, as
\* updateDecorations makes it for the first keyword of a pass.
MatchKeyword ==
    /\ ~mDone
    /\ \E c \in 1..Len(MatchCases), cs \in BOOLEAN, lang \in MatchLanguages :
          LET P == getCommentPatterns(lang)
          IN  /\ mKeyword' = MatchCases[c][1]
              /\ mEnableRegex' = MatchCases[c][2]
              /\ mCase' = cs
              /\ mLanguage' = lang
              /\ mResult' = findCommentKeywords(mText, MatchCases[c][1], P, FreshIdx(P),
                                                cs, MatchCases[c][2])
    /\ mDone' = TRUE
    /\ UNCHANGED <<mFrags, mText, vvars, kvars, lvars, svars>>

NextMatch == TypeText \/ MatchKeyword

SpecMatch == InitMatch /\ [][NextMatch]_vars

\* ---- what the matcher is specified to return, stated on sets of offsets

\* Characters equal, up to letter case when ci.
SameChar(a, b, ci) == IF ci THEN ToUpper(a) = ToUpper(b) ELSE a = b

\* k occurs in s at offset o.
OccursAt(s, k, o, ci) ==
    /\ o >= 0 /\ o + Len(k) <= Len(s)
    /\ \A j \in 1..Len(k) : SameChar(s[o + j], k[j], ci)

\* Descriptor d, started at offset i of text, matches exactly up to offset e.
IsCommentOf(d, text, i, e) ==
    /\ StartsAt(text, d.open, i)
    /\ e <= Len(text)
    /\ IF d.type = "single"
       THEN /\ e >= i + Len(d.open)
            /\ \A j \in (i + Len(d.open))..(e - 1) : text[j + 1] \notin LineTerminators
            /\ e = Len(text) \/ text[e + 1] \in LineTerminators
       ELSE /\ e >= i + Len(d.open) + Len(d.close)
            /\ StartsAt(text, d.close, e - Len(d.close))
            /\ \A j \in (i + Len(d.open))..(e - Len(d.close) - 1) :
                  ~StartsAt(text, d.close, j)

\* Every <<start, end>> that descriptor d matches somewhere in text.
CommentsOf(d, text) ==
    UNION {{<<i, e>> : e \in {x \in i..Len(text) : IsCommentOf(d, text, i, x)}} :
           i \in {y \in 0..Len(text) : StartsAt(text, d.open, y)}}

\* The comments a left-to-right scan with d visits from offset from on: the
\* leftmost one, then the leftmost one starting at or after its end, ...
RECURSIVE ScannedFrom(_, _)
ScannedFrom(comments, from) ==
    LET later == {c \in comments : c[1] >= from}
    IN  IF later = {} THEN <<>>
        ELSE LET c == CHOOSE x \in later : \A y \in later : x[1] <= y[1]
             IN  <<c>> \o ScannedFrom(comments, c[2])

ScannedComments(d, text, from) == ScannedFrom(CommentsOf(d, text), from)

\* Offsets in comment text ct where k occurs with a word boundary on both sides.
BoundedOccurrences(ct, k, ci) ==
    {o \in 0..Len(ct) :
        OccursAt(ct, k, o, ci) /\ WordBoundary(ct, o) /\ WordBoundary(ct, o + Len(k))}

\* The leftmost offset of S at or after from, then the leftmost one at or
\* after its end, ...: the occurrences not overlapping an earlier chosen one.
RECURSIVE NonOverlapping(_, _, _)
NonOverlapping(S, from, len) ==
    LET later == {o \in S : o >= from}
    IN  IF later = {} THEN <<>>
        ELSE <<Least(later)>> \o NonOverlapping(S, Least(later) + len, len)

RECURSIVE Concat(_)
Concat(ss) == IF ss = <<>> THEN <<>> ELSE Head(ss) \o Concat(Tail(ss))

\* Spans expected for literal keyword k: per descriptor, per scanned comment,
\* the non-overlapping bounded occurrences, each of length Len(k).
ExpectedLiteral(text, k, patterns, ci) ==
    Concat([n \in 1..Len(patterns) |->
        LET cs == ScannedComments(patterns[n], text, 0)
        IN  Concat([m \in 1..Len(cs) |->
                LET ct == Slice(text, cs[m][1] + 1, cs[m][2])
                    os == NonOverlapping(BoundedOccurrences(ct, k, ci), 0, Len(k))
                IN  [x \in 1..Len(os) |->
                        [start |-> cs[m][1] + os[x], end |-> cs[m][1] + os[x] + Len(k)]]])])

LiteralCall == mDone /\ ~(mEnableRegex /\ isRegexKeyword(mKeyword))

\* Number of spans of the result starting at offset o.
SpansAt(o) == Cardinality({i \in 1..Len(mResult.ranges) : mResult.ranges[i].start = o})

\* C7 (as amended): for a literal keyword k the matcher reports, per comment
\* matched by a descriptor, the occurrences of k that have a word boundary on
\* both sides, left to right and skipping an occurrence that overlaps one
\* already reported, each with a span of exactly k's length; a comment matched
\* by two descriptors contributes its spans once per descriptor.
C7_WordBoundary ==
    LiteralCall =>
        mResult.ranges =
            ExpectedLiteral(mText, mKeyword, getCommentPatterns(mLanguage), ~mCase)

\* A comment holds TODO once inside a longer word (not reported) and once
\* standing alone (reported).
C7_Witness ==
    /\ LiteralCall /\ mKeyword = TODO
    /\ Len(mResult.ranges) = 1
    /\ \E o \in 0..Len(mText) :
          /\ OccursAt(mText, TODO, o, ~mCase)
          /\ IsWordAt(mText, o + Len(TODO))
          /\ \E c \in CommentsOf(SlashSlash, mText) :
                c[1] <= o /\ mResult.ranges[1].start > o /\ mResult.ranges[1].end <= c[2]

\* C7 (as claimed): k is reported only where a word boundary holds on both
\* sides, every such occurrence inside a comment is reported, and a comment
\* containing one standalone occurrence yields exactly one span.
C7_EveryOccurrenceOnce ==
    LiteralCall =>
        LET P == getCommentPatterns(mLanguage)
            all == UNION {CommentsOf(P[n], mText) : n \in 1..Len(P)}
            bounded == UNION {{c[1] + o : o \in BoundedOccurrences(
                                  Slice(mText, c[1] + 1, c[2]), mKeyword, ~mCase)} :
                              c \in all}
        IN  /\ \A i \in 1..Len(mResult.ranges) :
                  /\ mResult.ranges[i].start \in bounded
                  /\ mResult.ranges[i].end = mResult.ranges[i].start + Len(mKeyword)
            /\ \A b \in bounded : SpansAt(b) = 1

\* C8: every span returned lies entirely inside a substring matched by one of
\* the language's comment descriptors, where the keyword occurs; an
\* occurrence outside every comment, also one between two adjacent block
\* comments, yields no span.
C8_CommentsOnly ==
    mDone =>
        LET P == getCommentPatterns(mLanguage)
            all == UNION {CommentsOf(P[n], mText) : n \in 1..Len(P)}
        IN
        \A i \in 1..Len(mResult.ranges) :
            LET r == mResult.ranges[i]
            IN  /\ \E c \in all :
                      c[1] <= r.start /\ r.start <= r.end /\ r.end <= c[2]
                /\ LiteralCall =>
                      /\ OccursAt(mText, mKeyword, r.start, ~mCase)
                      /\ r.end = r.start + Len(mKeyword)

\* TODO stands between two adjacent block comments and gets no span.
C8_Witness ==
    /\ mDone /\ mKeyword = TODO /\ mLanguage = "cpp"
    /\ mResult.ranges = <<>>
    /\ \E a, b \in CommentsOf(SlashStar, mText) :
          /\ OccursAt(mText, TODO, a[2], ~mCase)
          /\ b[1] = a[2] + Len(TODO)

(***************************************************************************)
(* The logger over one process lifetime                                    *)
(***************************************************************************)
MaxLogCalls == 12

\* activate: createLogger (null when the host call throws), logInfo,
\* errorCount = 0, ..., logInfo.
LogActivate ==
    /\ phase = "inactive"
    /\ \E lg \in {"open", "null"} :
          LET L == logInfo(logInfo(LogState(lg, 0, logLines)))
          IN  /\ logger' = L.logger
              /\ errorCount' = L.errorCount
              /\ logLines' = L.logLines
    /\ phase' = "active"
    /\ UNCHANGED <<vvars, kvars, mvars, svars>>

\* Some handler reports an error, with or without an error object.
LogErrorCall ==
    /\ phase = "active"
    /\ errorCount < MaxLogCalls
    /\ \E hasError \in BOOLEAN :
          LET L == logError(LogState(logger, errorCount, logLines), hasError)
          IN  /\ logger' = L.logger
              /\ errorCount' = L.errorCount
              /\ logLines' = L.logLines
    /\ UNCHANGED <<phase, vvars, kvars, mvars, svars>>

\* deactivate: logInfo, logger.dispose(), logger = null, logInfo.
LogDeactivate ==
    /\ phase = "active"
    /\ logLines' = logInfo(LogState(logger, errorCount, logLines)).logLines
    /\ logger' = "null"
    /\ phase' = "deactivated"
    /\ UNCHANGED <<errorCount, vvars, kvars, mvars, svars>>

InitLog == IdleLog /\ IdleValidate /\ IdleKeyword /\ IdleMatch /\ IdleSystem

NextLog == LogActivate \/ LogErrorCall \/ LogDeactivate

SpecLog == InitLog /\ [][NextLog]_vars

\* C3: once MAX_ERRORS errors have been reported, a further logError call
\* appends no line to the logger.
C3_ErrorCap ==
    [][(errorCount >= MAX_ERRORS /\ errorCount' = errorCount + 1)
         => logLines' = logLines]_vars

(***************************************************************************)
(* The handlers.  A handler maps the record S of what it reads and writes  *)
(* (configuration, registry, renderer, editor, logger) to the record it    *)
(* leaves behind.                                                          *)
(***************************************************************************)
Cur ==
    [config |-> config, decorationTypes |-> decorationTypes, nextHandle |-> nextHandle,
     disposed |-> disposed, hostCalls |-> <<>>, decorations |-> decorations,
     hung |-> hung, toasts |-> <<>>,
     logger |-> logger, errorCount |-> errorCount, logLines |-> logLines]

Apply(S) ==
    /\ config' = S.config
    /\ decorationTypes' = S.decorationTypes
    /\ nextHandle' = S.nextHandle
    /\ disposed' = S.disposed
    /\ hostCalls' = S.hostCalls
    /\ decorations' = S.decorations
    /\ hung' = S.hung
    /\ toasts' = S.toasts
    /\ logger' = S.logger
    /\ errorCount' = S.errorCount
    /\ logLines' = S.logLines

\* n calls of logError.
RECURSIVE logErrors(_, _, _)
logErrors(S, n, hasError) ==
    IF n = 0 THEN S ELSE logErrors(logError(S, hasError), n - 1, hasError)

Toast(kind, text) == [kind |-> kind, text |-> text]
show(S, kind, text) == [S EXCEPT !.toasts = Append(@, Toast(kind, text))]

\* safeMergeKeywords(config): the merged mapping, and the logError calls made.
notObjects(cfg) ==
    typeOf(cfg.keywords) # "object" \/ typeOf(cfg.customKeywords) # "object"

safeMergeKeywords(cfg) ==
    IF notObjects(cfg) THEN getDefaultKeywords
    ELSE spread(entriesOf(cfg.keywords), entriesOf(cfg.customKeywords))

\* The logError calls of the validateKeywords loop from entry i on.
RECURSIVE validateErrors(_, _, _, _, _)
validateErrors(keywords, i, count, minLength, maxKeywords) ==
    IF i > Len(keywords) THEN 0
    ELSE IF count >= maxKeywords THEN 1
    ELSE IF validateKeyword(keywords[i].keyword, keywords[i].color, minLength)
         THEN validateErrors(keywords, i + 1, count + 1, minLength, maxKeywords)
         ELSE 1 + validateErrors(keywords, i + 1, count, minLength, maxKeywords)

\* validateKeywords(safeMergeKeywords(config)) as both handlers call it.
validKeywordsOf(cfg) ==
    validateKeywords(safeMergeKeywords(cfg), cfg.minKeywordLength, cfg.maxKeywords)

mergeErrors(cfg) == IF notObjects(cfg) THEN 1 ELSE 0

validationErrors(cfg) ==
    validateErrors(safeMergeKeywords(cfg), 1, 0, cfg.minKeywordLength, cfg.maxKeywords)

handlesOf(registry) == {registry[i].handle : i \in 1..Len(registry)}

\* decorationTypes.get(keyword): 0 for undefined.
mapGet(registry, keyword) ==
    IF \E i \in 1..Len(registry) : registry[i].keyword = keyword
    THEN registry[CHOOSE i \in 1..Len(registry) : registry[i].keyword = keyword].handle
    ELSE 0

\* decorationTypes.set(keyword, handle)
mapSet(registry, keyword, handle) ==
    IF \E i \in 1..Len(registry) : registry[i].keyword = keyword
    THEN [i \in 1..Len(registry) |->
             IF registry[i].keyword = keyword
             THEN [keyword |-> keyword, handle |-> handle] ELSE registry[i]]
    ELSE Append(registry, [keyword |-> keyword, handle |-> handle])

\* A registry whose handles are dropped without being disposed.
disposeNone(S) == S

\* decorationTypes.forEach(decorationType => decorationType.dispose()): the
\* renderer drops a disposed handle's decorations from the editor.
disposeAll(S) ==
    [S EXCEPT !.disposed = @ \cup handlesOf(S.decorationTypes),
              !.hostCalls = @ \o [i \in 1..Len(S.decorationTypes) |->
                                    [op |-> "dispose",
                                     handle |-> S.decorationTypes[i].handle,
                                     options |-> Undefined]],
              !.decorations = {d \in @ : d.handle \notin handlesOf(S.decorationTypes)}]

\* A registry that keeps its entries.
keepRegistry(S) == S

\* decorationTypes.clear()
clearRegistry(S) == [S EXCEPT !.decorationTypes = <<>>]

createDecorationOptions(keyword, color, highlightStyle, fontWeight, showIcons) ==
    [fontWeight |-> IF truthy(fontWeight) THEN fontWeight ELSE Str(<<"bold">>),
     icon |-> truthy(showIcons),
     color |-> color,
     backgroundColor |-> IF highlightStyle = Str(<<"background">>)
                         THEN Str(color.val \o <<"3", "3">>) ELSE Undefined,
     border |-> IF highlightStyle = Str(<<"border">>) THEN color ELSE Undefined,
     textDecoration |-> IF highlightStyle = Str(<<"underline">>) THEN color ELSE Undefined]

\* Object.entries(validKeywords).forEach from entry i on: create a handle and
\* register it under the keyword.
RECURSIVE createLoop(_, _, _)
createLoop(S, valid, i) ==
    IF i > Len(valid) THEN S
    ELSE createLoop(
           [S EXCEPT !.decorationTypes = mapSet(@, valid[i].keyword, S.nextHandle),
                     !.nextHandle = @ + 1,
                     !.hostCalls = Append(@,
                         [op |-> "create", handle |-> S.nextHandle,
                          options |-> createDecorationOptions(
                              valid[i].keyword, valid[i].color, S.config.highlightStyle,
                              S.config.fontWeight, S.config.showIcons)])],
           valid, i + 1)

updateDecorationTypes(S) ==
    createLoop(logErrors(clearRegistry(disposeAll(S)),
                         mergeErrors(S.config) + validationErrors(S.config), FALSE),
               validKeywordsOf(S.config), 1)

\* clearDecorations(editor): setDecorations(handle, []) for every registered handle.
clearDecorations(S) ==
    [S EXCEPT !.decorations = {d \in @ : d.handle \notin handlesOf(S.decorationTypes)},
              !.hostCalls = @ \o [i \in 1..Len(S.decorationTypes) |->
                                    [op |-> "clear",
                                     handle |-> S.decorationTypes[i].handle,
                                     options |-> Undefined]]]

\* editor.setDecorations(handle, ranges), called for a non-empty ranges only.
setDecorations(S, handle, ranges) ==
    IF ranges = <<>> THEN S
    ELSE [S EXCEPT !.decorations =
             {d \in @ : d.handle # handle} \cup {[handle |-> handle, ranges |-> ranges]},
                   !.hostCalls = Append(@, [op |-> "apply", handle |-> handle,
                                            options |-> Undefined])]

\* Object.keys(validKeywords).forEach from key i on; the descriptors' regex
\* objects (lastIdx) are shared by all keywords of the pass.  scanStep
\* continues after findCommentKeywords returned r; a matcher that never
\* returns leaves the handler hung.
RECURSIVE scanKeywords(_, _, _, _, _, _)
RECURSIVE scanStep(_, _, _, _, _, _)
scanKeywords(S, keys, i, text, patterns, lastIdx) ==
    IF i > Len(keys) THEN S
    ELSE IF mapGet(S.decorationTypes, keys[i]) = 0
    THEN scanKeywords(S, keys, i + 1, text, patterns, lastIdx)
    ELSE scanStep(S, keys, i, text, patterns,
                  findCommentKeywords(text, keys[i], patterns, lastIdx,
                                      truthy(S.config.caseSensitive),
                                      truthy(S.config.enableRegexKeywords)))

scanStep(S, keys, i, text, patterns, r) ==
    IF r.diverged THEN [S EXCEPT !.hung = TRUE]
    ELSE scanKeywords(
           setDecorations(logErrors(S, r.errors, TRUE),
                          mapGet(S.decorationTypes, keys[i]), r.ranges),
           keys, i + 1, text, patterns, r.lastIdx)

\* The forEach stopping at the first keyword whose matching fails.
scanAborted(S, keys) ==
    IF \E i \in 1..Len(keys) : mapGet(S.decorationTypes, keys[i]) # 0
    THEN logError(S, TRUE) ELSE S

\* Object.keys(validKeywords).forEach when commentPatterns is an inherited
\* member and not an array: for every registered keyword findCommentKeywords
\* throws at commentPatterns.forEach, catches, logs and returns [].
scanFailing(S, keys) ==
    logErrors(S, Cardinality({i \in 1..Len(keys) : mapGet(S.decorationTypes, keys[i]) # 0}),
              TRUE)

\* safeMergeKeywords, clearDecorations and validateKeywords at the head of a scan.
scanHead(S) ==
    logErrors(clearDecorations(logErrors(S, mergeErrors(S.config), FALSE)),
              validationErrors(S.config), FALSE)

\* updateDecorations(editor); editor is FALSE for a null editor.
updateDecorations(S, editor, text, language) ==
    IF ~S.config.enabled THEN S
    ELSE IF ~editor THEN S
    ELSE IF language \in DOMAIN ObjectPrototype
    THEN (IF getCommentPatterns(language).length = 0 THEN S
          ELSE scanFailing(scanHead(S), Keys(validKeywordsOf(S.config))))
    ELSE IF getCommentPatterns(language) = <<>> THEN S
    ELSE scanKeywords(scanHead(S), Keys(validKeywordsOf(S.config)), 1, text,
                      getCommentPatterns(language), FreshIdx(getCommentPatterns(language)))

\* The onDidChangeConfiguration listener.
onDidChangeConfiguration(S, editor, text, language) ==
    updateDecorations(updateDecorationTypes(S), editor, text, language)

\* activate(context)
activate(S, editor, text, language) ==
    logInfo(updateDecorations(
              updateDecorationTypes(
                [logInfo([S EXCEPT !.logger = "open"]) EXCEPT !.errorCount = 0]),
              editor, text, language))

\* deactivate(), but for the timer.
deactivate(S) ==
    [clearRegistry(disposeAll(logInfo(S))) EXCEPT !.logger = "null"]

(***************************************************************************)
(* JSON.stringify / JSON.parse on token sequences                          *)
(***************************************************************************)
Tok(kind, val) == [kind |-> kind, val |-> val]

\* JSON.stringify(v): a member whose value is undefined is left out.
RECURSIVE JSONstringify(_)
RECURSIVE stringifyEntries(_)
JSONstringify(v) ==
    IF v.type = "object"
    THEN <<Tok("{", <<>>)>> \o stringifyEntries(v.val) \o <<Tok("}", <<>>)>>
    ELSE IF v.type = "string" THEN <<Tok("str", v.val)>>
    ELSE IF v.type = "number" THEN <<Tok("num", v.val)>>
    ELSE IF v.type = "boolean" THEN <<Tok("lit", v.val)>>
    ELSE IF v.type = "null" THEN <<Tok("lit", <<"null">>)>>
    ELSE <<>>

stringifyEntries(es) ==
    IF es = <<>> THEN <<>>
    ELSE (IF Head(es).color.type = "undefined" THEN <<>>
          ELSE <<Tok("key", Head(es).keyword)>> \o JSONstringify(Head(es).color))
         \o stringifyEntries(Tail(es))

ParseError == [ok |-> FALSE, value |-> Undefined, next |-> 0]
Parsed(v, next) == [ok |-> TRUE, value |-> v, next |-> next]

\* The value that starts at token i; parseMembers reads an object's members
\* into acc, parseMember adds the member whose value parsed as r.
RECURSIVE parseValue(_, _)
RECURSIVE parseMembers(_, _, _)
RECURSIVE parseMember(_, _, _, _)
parseValue(toks, i) ==
    IF i > Len(toks) THEN ParseError
    ELSE IF toks[i].kind = "str" THEN Parsed(Str(toks[i].val), i + 1)
    ELSE IF toks[i].kind = "num" THEN Parsed(Num(toks[i].val), i + 1)
    ELSE IF toks[i].kind = "lit"
    THEN (IF toks[i].val = <<"null">> THEN Parsed(Null, i + 1)
          ELSE Parsed(Bool(toks[i].val = <<"true">>), i + 1))
    ELSE IF toks[i].kind = "{" THEN parseMembers(toks, i + 1, <<>>)
    ELSE ParseError

parseMembers(toks, i, acc) ==
    IF i > Len(toks) THEN ParseError
    ELSE IF toks[i].kind = "}" THEN Parsed(Obj(acc), i + 1)
    ELSE IF toks[i].kind = "key"
    THEN parseMember(toks, toks[i].val, acc, parseValue(toks, i + 1))
    ELSE ParseError

parseMember(toks, key, acc, r) ==
    IF ~r.ok THEN ParseError
    ELSE parseMembers(toks, r.next, setProp(acc, Entry(key, r.value)))

\* The whole text must be one value.
parseWhole(toks, r) == IF r.ok /\ r.next = Len(toks) + 1 THEN r ELSE ParseError

\* JSON.parse(text): ok is FALSE for a SyntaxError.
JSONparse(toks) == parseWhole(toks, parseValue(toks, 1))

(***************************************************************************)
(* exportTheme / importTheme                                               *)
(***************************************************************************)
\* A theme that leaves customKeywords out.
themeWithoutCustom(cfg) ==
    Obj(<< Entry(<<"name">>, Str(<<"Comment Wizard Theme">>)),
           Entry(<<"version">>, Str(<<"1.0.0">>)),
           Entry(<<"keywords">>, cfg.keywords),
           Entry(<<"settings">>,
                 Obj(<< Entry(<<"caseSensitive">>, cfg.caseSensitive),
                        Entry(<<"highlightStyle">>, cfg.highlightStyle),
                        Entry(<<"fontWeight">>, cfg.fontWeight),
                        Entry(<<"showIcons">>, cfg.showIcons),
                        Entry(<<"enableRegexKeywords">>, cfg.enableRegexKeywords) >>)) >>)

\* The theme object exportTheme builds from the configuration.
themeOf(cfg) ==
    Obj(<< Entry(<<"name">>, Str(<<"Comment Wizard Theme">>)),
           Entry(<<"version">>, Str(<<"1.0.0">>)),
           Entry(<<"keywords">>, cfg.keywords),
           Entry(<<"customKeywords">>, cfg.customKeywords),
           Entry(<<"settings">>,
                 Obj(<< Entry(<<"caseSensitive">>, cfg.caseSensitive),
                        Entry(<<"highlightStyle">>, cfg.highlightStyle),
                        Entry(<<"fontWeight">>, cfg.fontWeight),
                        Entry(<<"showIcons">>, cfg.showIcons),
                        Entry(<<"enableRegexKeywords">>, cfg.enableRegexKeywords) >>)) >>)

\* An import that takes every theme.
themeAccepted(theme) == TRUE

\* !(!theme.keywords && !theme.customKeywords)
themeHasKeywords(theme) ==
    truthy(get(theme, <<"keywords">>)) \/ truthy(get(theme, <<"customKeywords">>))

Update(key, value) == [key |-> key, value |-> value]

ThemeSettings ==
    <<"caseSensitive", "highlightStyle", "fontWeight", "showIcons", "enableRegexKeywords">>

\* The config.update calls for theme.settings, from setting n on.
RECURSIVE settingUpdates(_, _)
settingUpdates(settings, n) ==
    IF n > Len(ThemeSettings) THEN <<>>
    ELSE (IF get(settings, <<ThemeSettings[n]>>) # Undefined
          THEN <<Update(ThemeSettings[n], get(settings, <<ThemeSettings[n]>>))>>
          ELSE <<>>)
         \o settingUpdates(settings, n + 1)

\* The config.update calls importTheme makes for theme, in order.
importUpdates(theme) ==
    (IF truthy(get(theme, <<"keywords">>))
     THEN <<Update("keywords", get(theme, <<"keywords">>))>> ELSE <<>>)
    \o (IF truthy(get(theme, <<"customKeywords">>))
        THEN <<Update("customKeywords", get(theme, <<"customKeywords">>))>> ELSE <<>>)
    \o (IF truthy(get(theme, <<"settings">>))
        THEN settingUpdates(get(theme, <<"settings">>), 1) ELSE <<>>)

\* The catch of importTheme and the catch of the command around it.
importFailed(S) ==
    show(logError(show(logError(S, TRUE), "error",
                       "Failed to import theme. Please check the file format."),
                  TRUE),
         "error", "Failed to import theme. See output for details.")

\* importTheme up to its first config.update, for the file's parse result:
\* what it left in S, its state and the updates it has still to make.
importStart(S, parsed) ==
    IF ~parsed.ok \/ parsed.value.type = "null"
    THEN [S |-> importFailed(S), state |-> "failed", queue |-> <<>>]
    ELSE IF ~themeHasKeywords(parsed.value)
    THEN [S |-> show(S, "error", "Invalid theme file: missing keywords"),
          state |-> "rejected", queue |-> <<>>]
    ELSE IF importUpdates(parsed.value) = <<>>
    THEN [S |-> show(S, "info", "Theme imported successfully"),
          state |-> "done", queue |-> <<>>]
    ELSE [S |-> S, state |-> "running", queue |-> importUpdates(parsed.value)]

(***************************************************************************)
(* The extension over one process lifetime: activation, settings changes, *)
(* theme export and import, deactivation                                   *)
(***************************************************************************)
MaxUserChanges == 2
MaxImports == 1
MaxExports == 1

SlashTODO == <<"/", "/", "T", "O", "D", "O">>

\* Values the user gives customKeywords and keywords in settings.json.
CustomChoices ==
    { Obj(<<>>),
      Obj(<<Entry(RegexTODO, Str(<<"#", "F", "F", "0", "0", "0", "0">>))>>),
      Obj(<<Entry(TODO, Str(<<"#", "F", "F", "F">>)),
            Entry(<<"H", "O", "T">>, Str(<<"#", "F", "0", "0">>))>>) }
KeywordChoices == { Obj(getDefaultKeywords), Str(<<>>) }

\* The configurations one change of one setting leads to.
SettingChanges(cfg) ==
    ({[cfg EXCEPT !.customKeywords = v] : v \in CustomChoices}
     \cup {[cfg EXCEPT !.keywords = v] : v \in KeywordChoices}
     \cup {[cfg EXCEPT !.caseSensitive = Bool(~truthy(@))],
           [cfg EXCEPT !.enableRegexKeywords = Bool(~truthy(@))],
           [cfg EXCEPT !.maxKeywords = IF @ = 1 THEN 50 ELSE 1],
           [cfg EXCEPT !.highlightStyle =
               IF @ = Str(<<"text">>) THEN Str(<<"background">>) ELSE Str(<<"text">>)]})
    \ {cfg}

\* Files the user can pick besides the exported one: an empty object, a theme
\* with settings only, a theme with keywords only, null, a truncated file.
ForeignFiles ==
    { JSONstringify(Obj(<<>>)),
      JSONstringify(Obj(<<Entry(<<"settings">>,
                                Obj(<<Entry(<<"caseSensitive">>, Bool(TRUE))>>))>>)),
      JSONstringify(Obj(<<Entry(<<"keywords">>,
                                Obj(<<Entry(FIXME, Str(<<"#", "0", "F", "0">>))>>))>>)),
      JSONstringify(Null),
      <<Tok("{", <<>>)>> }

ThemeFiles == (IF themeFile = <<>> THEN {} ELSE {themeFile}) \cup ForeignFiles

InitSystem ==
    /\ IdleValidate /\ IdleKeyword /\ IdleMatch /\ IdleLog
    /\ IdleHandlers /\ IdleTimers /\ IdleTheme /\ IdleCommands /\ IdleMerge
    /\ activeEditor = TRUE /\ docText = SlashTODO /\ docVersion = 0
    /\ docLanguage = "cpp"

\* The host calls activate.
Activate ==
    /\ phase = "inactive" /\ ~hung
    /\ Apply(activate(Cur, activeEditor, docText, docLanguage))
    /\ phase' = "active"
    /\ UNCHANGED <<vvars, kvars, mvars, dvars, tvars, xvars>>

\* What a change of the configuration to cfg leaves behind: the listener
\* runs while the extension is active and the configuration did change.
configured(S, cfg, active, editor, text, language) ==
    IF active /\ cfg # S.config
    THEN onDidChangeConfiguration([S EXCEPT !.config = cfg], editor, text, language)
    ELSE [S EXCEPT !.config = cfg]

\* The user changes one setting.
UserSetting ==
    /\ ~hung /\ userChanges < MaxUserChanges
    /\ \E cfg \in SettingChanges(config) :
          Apply(configured(Cur, cfg, phase = "active", activeEditor, docText, docLanguage))
    /\ userChanges' = userChanges + 1
    /\ importDisturbed' = (importDisturbed \/ importState = "running")
    /\ UNCHANGED <<phase, vvars, kvars, mvars, dvars, tvars, themeFile, exportPending,
                   exportConfig, importState, importQueue, importFile, importConfig,
                   imports, exports>>
    /\ UNCHANGED <<cvars, gvars>>

\* exportTheme up to the save dialog.
ExportBegin ==
    /\ phase = "active" /\ ~hung /\ exportPending = NoExport /\ exports < MaxExports
    /\ exportPending' = [theme |-> themeOf(config), config |-> config]
    /\ exports' = exports + 1
    /\ UNCHANGED <<vvars, kvars, lvars, mvars, hvars, dvars, tvars, themeFile,
                   exportConfig, importState, importQueue, importFile, importConfig,
                   importDisturbed, imports, userChanges>>
    /\ UNCHANGED <<cvars, gvars>>

\* The save dialog returns: the theme is written, or the dialog was cancelled.
ExportSave ==
    /\ exportPending # NoExport /\ ~hung
    /\ \E chosen \in BOOLEAN :
          IF chosen
          THEN /\ themeFile' = JSONstringify(exportPending.theme)
               /\ exportConfig' = exportPending.config
               /\ toasts' = <<Toast("info", "Theme exported")>>
          ELSE UNCHANGED <<themeFile, exportConfig, toasts>>
    /\ exportPending' = NoExport
    /\ UNCHANGED <<vvars, kvars, lvars, mvars, dvars, tvars, config, decorationTypes,
                   nextHandle, disposed, hostCalls, decorations, hung, importState,
                   importQueue, importFile, importConfig, importDisturbed, imports,
                   exports, userChanges>>
    /\ UNCHANGED <<cvars, gvars>>

\* importTheme: the user picks a file; it is read, parsed and checked.
ImportBegin ==
    /\ phase = "active" /\ ~hung /\ importState # "running" /\ imports < MaxImports
    /\ \E file \in ThemeFiles :
          /\ Apply(importStart(Cur, JSONparse(file)).S)
          /\ importState' = importStart(Cur, JSONparse(file)).state
          /\ importQueue' = importStart(Cur, JSONparse(file)).queue
          /\ importFile' = file
    /\ importConfig' = config
    /\ importDisturbed' = FALSE
    /\ imports' = imports + 1
    /\ UNCHANGED <<phase, vvars, kvars, mvars, dvars, tvars, themeFile, exportPending,
                   exportConfig, exports, userChanges>>
    /\ UNCHANGED <<cvars, gvars>>

\* After the last update importTheme reports success.
imported(S, last) ==
    IF last THEN show(S, "info", "Theme imported successfully") ELSE S

\* One await config.update(key, value) of importTheme takes effect.
ImportStep ==
    /\ importState = "running" /\ ~hung
    /\ Apply(imported(configured(Cur,
                                 [config EXCEPT ![Head(importQueue).key] =
                                                    Head(importQueue).value],
                                 phase = "active", activeEditor, docText, docLanguage),
                      Len(importQueue) = 1))
    /\ importQueue' = Tail(importQueue)
    /\ importState' = IF Len(importQueue) = 1 THEN "done" ELSE "running"
    /\ UNCHANGED <<phase, vvars, kvars, mvars, dvars, tvars, themeFile, exportPending,
                   exportConfig, importFile, importConfig, importDisturbed, imports,
                   exports, userChanges>>
    /\ UNCHANGED <<cvars, gvars>>

\* The host rejects the write of a setting package.json does not register.
ImportStepRejected ==
    /\ importState = "running" /\ ~hung
    /\ Head(importQueue).key \notin RegisteredKeys
    /\ Apply(importFailed(Cur))
    /\ importQueue' = <<>>
    /\ importState' = "failed"
    /\ UNCHANGED <<phase, vvars, kvars, mvars, dvars, tvars, themeFile, exportPending,
                   exportConfig, importFile, importConfig, importDisturbed, imports,
                   exports, userChanges>>
    /\ UNCHANGED <<cvars, gvars>>

\* A clearTimeout that leaves the timer pending.
keepTimer(T) == T

\* clearTimeout(timeout): the host drops the timer.
clearTimeout(T) ==
    IF T.timeout # 0 THEN [T EXCEPT !.timers = {t \in @ : t.id # T.timeout}] ELSE T

CurTimers == [timeout |-> timeout, nextTimer |-> nextTimer, timers |-> timers]

\* A deactivate that forgets the timer without clearing it.
forgetTimer(T) == [T EXCEPT !.timeout = 0]

\* deactivate: if (timeout) { clearTimeout(timeout); timeout = null; }
cancelTimer(T) == [clearTimeout(T) EXCEPT !.timeout = 0]

\* The host calls deactivate.
Deactivate ==
    /\ phase = "active" /\ ~hung
    /\ Apply(deactivate(Cur))
    /\ phase' = "deactivated"
    /\ timers' = cancelTimer(CurTimers).timers
    /\ timeout' = cancelTimer(CurTimers).timeout
    /\ UNCHANGED <<vvars, kvars, mvars, dvars, nextTimer, sinceEdit, burst, timerScans,
                   scanRead, xvars>>

Next ==
    \/ Activate
    \/ UserSetting
    \/ ExportBegin
    \/ ExportSave
    \/ ImportBegin
    \/ ImportStep
    \/ ImportStepRejected
    \/ Deactivate

Spec == InitSystem /\ [][Next]_vars

(***************************************************************************)
(* Document edits and the debounce timer                                   *)
(***************************************************************************)
MaxEdits == 3
TickStep == 50
MaxErrorCount == 11

\* Texts an edit leaves in the document.
EditTexts == { SlashTODO, <<"/", "/", "X">>, <<"/", "*", "B", "U", "G", "*", "/">> }

\* timeout = setTimeout(callback, 100)
setTimeout(T) ==
    [T EXCEPT !.timers = @ \cup {[id |-> T.nextTimer, remaining |-> QuietPeriod]},
              !.timeout = T.nextTimer,
              !.nextTimer = @ + 1]

\* Arming a timer without cancelling the one already armed.
armOnly(T) == setTimeout(T)

\* triggerUpdateDecorations(editor): if (timeout) clearTimeout(timeout), then
\* setTimeout.
triggerUpdateDecorations(T) == setTimeout(clearTimeout(T))

\* The document changes; the onDidChangeTextDocument listener runs while the
\* extension is active and the document is the active editor's.
EditDocument ==
    /\ ~hung /\ docVersion < MaxEdits
    /\ \E text \in EditTexts : docText' = text
    /\ docVersion' = docVersion + 1
    /\ IF phase = "active" /\ activeEditor
       THEN /\ timers' = triggerUpdateDecorations(CurTimers).timers
            /\ timeout' = triggerUpdateDecorations(CurTimers).timeout
            /\ nextTimer' = triggerUpdateDecorations(CurTimers).nextTimer
            /\ burst' = IF burst > 0 /\ sinceEdit < QuietPeriod THEN burst + 1 ELSE 1
            /\ sinceEdit' = 0
            /\ timerScans' = 0
       ELSE UNCHANGED <<timers, timeout, nextTimer, burst, sinceEdit, timerScans>>
    /\ UNCHANGED <<scanRead, activeEditor, docLanguage, vvars, kvars, lvars, mvars,
                   hvars, xvars>>

\* Time passes while a timer is running or the quiet period has not elapsed.
Tick ==
    /\ (\E t \in timers : t.remaining > 0) \/ sinceEdit < QuietPeriod
    /\ timers' = {[t EXCEPT !.remaining = IF @ > TickStep THEN @ - TickStep ELSE 0] :
                     t \in timers}
    /\ sinceEdit' = IF sinceEdit + TickStep < QuietPeriod
                    THEN sinceEdit + TickStep ELSE QuietPeriod
    /\ UNCHANGED <<timeout, nextTimer, burst, timerScans, scanRead, vvars, kvars, lvars,
                   mvars, hvars, dvars, xvars>>

\* A timer that has run out calls back: updateDecorations(editor) for the
\* editor the edit was made in.
TimerFire ==
    /\ ~hung
    /\ \E t \in timers : t.remaining = 0 /\ timers' = timers \ {t}
    /\ Apply(updateDecorations(Cur, TRUE, docText, docLanguage))
    /\ timerScans' = timerScans + 1
    /\ scanRead' = docVersion
    /\ UNCHANGED <<phase, timeout, nextTimer, sinceEdit, burst, vvars, kvars, mvars,
                   dvars, xvars>>

\* The active editor changes (to none, or back to the document's editor);
\* the onDidChangeActiveTextEditor listener scans a new editor.
ChangeActiveEditor ==
    /\ ~hung /\ errorCount < MaxErrorCount
    /\ activeEditor' = ~activeEditor
    /\ Apply(IF phase = "active" /\ ~activeEditor
             THEN updateDecorations(Cur, TRUE, docText, docLanguage) ELSE Cur)
    /\ UNCHANGED <<phase, docText, docVersion, docLanguage, vvars, kvars, mvars, tvars,
                   xvars>>

NextDebounce ==
    \/ Activate
    \/ EditDocument
    \/ Tick
    \/ TimerFire
    \/ ChangeActiveEditor
    \/ Deactivate

\* TimerFire as it shows on the timers and the scan counter: TimerFire is the
\* only step that counts a scan, and it can be taken whenever a timer has run
\* out, so fairness for this step is fairness for TimerFire.
TimerCallback ==
    /\ ~hung
    /\ \E t \in timers : t.remaining = 0
    /\ timerScans' = timerScans + 1

\* Time does not stop, and a timer that has run out is called back.
SpecDebounce ==
    InitSystem /\ [][NextDebounce]_vars /\ WF_vars(Tick) /\ WF_timerScans(TimerCallback)

(***************************************************************************)
(* Properties of the extension                                             *)
(***************************************************************************)
\* The decorations a scan of text puts on the editor: for every registered
\* keyword with a span in a comment, its handle with its spans.
ExpectedDecorations(registry, text, cfg, language) ==
    LET P == getCommentPatterns(language)
        R == [i \in 1..Len(registry) |->
                 findCommentKeywords(text, registry[i].keyword, P, FreshIdx(P),
                                     truthy(cfg.caseSensitive),
                                     truthy(cfg.enableRegexKeywords)).ranges]
    IN  {[handle |-> registry[i].handle, ranges |-> R[i]] :
            i \in {j \in 1..Len(registry) : R[j] # <<>>}}

C2_HandleLifecycle ==
    /\ \A h \in 1..(nextHandle - 1) :
          h \in handlesOf(decorationTypes) \/ h \in disposed
    /\ handlesOf(decorationTypes) \cap disposed = {}
    /\ \A i, j \in 1..Len(hostCalls) :
          (hostCalls[i].op = "create" /\ hostCalls[j].op = "dispose") => j < i
    /\ phase = "deactivated" =>
          decorationTypes = <<>> /\ \A h \in 1..(nextHandle - 1) : h \in disposed

\* A settings change replaced the registry: old handles disposed, new created.
C2_Witness ==
    /\ phase = "active"
    /\ \E i, j \in 1..Len(hostCalls) :
          /\ hostCalls[i].op = "dispose" /\ hostCalls[j].op = "create"
          /\ hostCalls[i].handle \in disposed
          /\ hostCalls[j].handle \in handlesOf(decorationTypes)

\* C6: with enableRegexKeywords true, every regex-wrapped keyword /p/ of the
\* configured keyword set that has a valid color is decorated, after a scan,
\* with the spans of the substrings of comments that match p, each covering
\* the whole match.
C6_RegexKeywordSpans ==
    (/\ phase = "active" /\ activeEditor /\ ~hung
     /\ config.enabled /\ truthy(config.enableRegexKeywords)
     /\ ~notObjects(config)
     /\ Len(safeMergeKeywords(config)) <= config.maxKeywords)
    => \A i \in 1..Len(safeMergeKeywords(config)) :
          LET e == safeMergeKeywords(config)[i]
              P == getCommentPatterns(docLanguage)
              spans == findRegexKeywords(docText, e.keyword, P, FreshIdx(P),
                                         truthy(config.caseSensitive)).ranges
          IN  (/\ isRegexKeyword(e.keyword)
               /\ Len(e.keyword) >= config.minKeywordLength
               /\ HexColorGrammar(e.color)
               /\ spans # <<>>)
              => [handle |-> mapGet(decorationTypes, e.keyword), ranges |-> spans]
                    \in decorations

\* importTheme, reading the file exportTheme wrote, makes its last update (or
\* has it rejected) with no setting changed while it ran.
RoundTripEnds(states) ==
    /\ importState = "running" /\ importState' \in states
    /\ importFile = themeFile /\ ~importDisturbed

LacksBoth(file) ==
    /\ JSONparse(file).ok
    /\ get(JSONparse(file).value, <<"keywords">>) = Undefined
    /\ get(JSONparse(file).value, <<"customKeywords">>) = Undefined

\* C10: an importTheme of a file with neither member shows an error, makes
\* no config.update then or later, and leaves every configuration key, the
\* registry and the decorations as they were.
C10_ImportRejection ==
    [][(imports' = imports + 1 /\ LacksBoth(importFile')) =>
         /\ \E i \in 1..Len(toasts') : toasts'[i].kind = "error"
         /\ importState' \in {"rejected", "failed"}
         /\ importQueue' = <<>>
         /\ config' = config
         /\ decorationTypes' = decorationTypes
         /\ decorations' = decorations
         /\ nextHandle' = nextHandle
         /\ disposed' = disposed]_vars

\* A theme with settings only was picked and rejected.
C10_Witness ==
    /\ importState = "rejected"
    /\ LacksBoth(importFile)
    /\ get(JSONparse(importFile).value, <<"settings">>) # Undefined
    /\ toasts = <<Toast("error", "Invalid theme file: missing keywords")>>
    /\ config = importConfig

(***************************************************************************)
(* Documents of other languages                                            *)
(***************************************************************************)
\* Language identifiers of the documents: one the table has, one it does not
\* have, and two that name members inherited from Object.prototype.
Languages == {"cpp", "plaintext", "constructor", "toString"}

\* The editor's document gets another language; no listener is registered
\* for that.
SetLanguage ==
    /\ ~hung /\ docVersion < MaxEdits
    /\ \E language \in Languages \ {docLanguage} : docLanguage' = language
    /\ docVersion' = docVersion + 1
    /\ UNCHANGED <<activeEditor, docText, vvars, kvars, lvars, mvars, hvars, tvars,
                   xvars>>

NextLanguage ==
    \/ Activate
    \/ UserSetting
    \/ SetLanguage
    \/ ChangeActiveEditor
    \/ Deactivate

SpecLanguage == InitSystem /\ [][NextLanguage]_vars

\* The onDidChangeActiveTextEditor listener gets an editor: the step is one
\* call of updateDecorations and nothing else.
EditorScan == phase = "active" /\ ~activeEditor /\ activeEditor' /\ config.enabled

\* The keys of the validated set that have a handle in the registry.
HandledKeys(cfg, registry) ==
    {i \in 1..Len(validKeywordsOf(cfg)) :
        mapGet(registry, validKeywordsOf(cfg)[i].keyword) # 0}

\* The logError calls of a scan before its first keyword.
HeadErrors(cfg) == mergeErrors(cfg) + validationErrors(cfg)

\* C11: for a language identifier that is not a key of the table,
\* getCommentPatterns returns the empty list, and a scan of a document of
\* that language applies no spans and leaves errorCount and the logger as
\* they were.
C11_UnsupportedLanguage ==
    [][(EditorScan /\ docLanguage \notin TableKeys) =>
         /\ getCommentPatterns(docLanguage) = <<>>
         /\ \A i \in 1..Len(hostCalls') : hostCalls'[i].op # "apply"
         /\ errorCount' = errorCount
         /\ logLines' = logLines
         /\ logger' = logger]_vars

Red == Str(<<"#", "F", "0", "0">>)
HOT == <<"H", "O", "T">>

\* Values settings.json can give keywords and customKeywords: mappings (the
\* defaults, an empty one, one overriding TODO, one with a number as a
\* color), null, an array, a string and a number.
MergeValues ==
    << Obj(getDefaultKeywords),
       Obj(<<>>),
       Obj(<<Entry(TODO, Red), Entry(HOT, Red)>>),
       Obj(<<Entry(HOT, Num(<<"5">>))>>),
       Null,
       Arr(<<Str(TODO)>>),
       Str(<<"a", "b">>),
       Num(<<"5">>) >>

InitMerge ==
    /\ IdleValidate /\ IdleKeyword /\ IdleMatch /\ IdleLog
    /\ \E k \in 1..Len(MergeValues), c \in 1..Len(MergeValues) :
          config = [DefaultConfig EXCEPT !.keywords = MergeValues[k],
                                         !.customKeywords = MergeValues[c]]
    /\ decorationTypes = <<>> /\ nextHandle = 1 /\ disposed = {} /\ hostCalls = <<>>
    /\ decorations = {} /\ hung = FALSE /\ toasts = <<>>
    /\ IdleTimers /\ IdleTheme /\ IdleCommands /\ IdleMerge /\ IdleDocument

\* One call of safeMergeKeywords(config).
MergeKeywords ==
    /\ ~gDone
    /\ gResult' = safeMergeKeywords(config)
    /\ gDone' = TRUE
    /\ errorCount' = logErrors(LogState(logger, errorCount, logLines),
                               mergeErrors(config), FALSE).errorCount
    /\ logLines' = logErrors(LogState(logger, errorCount, logLines),
                             mergeErrors(config), FALSE).logLines
    /\ UNCHANGED <<phase, logger, vvars, kvars, mvars, hvars, dvars, tvars, evars, cvars>>

NextMerge == MergeKeywords

SpecMerge == InitMerge /\ [][NextMerge]_vars

\* A mapping from strings to strings.
WellFormedMapping(v) ==
    v.type = "object" /\ \A i \in 1..Len(v.val) : v.val[i].color.type = "string"

\* The mapping a over b: the keys of both, b's value where b has the key.
IsOverlay(m, a, b) ==
    /\ KeySet(m) = KeySet(a) \cup KeySet(b)
    /\ \A i, j \in 1..Len(m) : m[i].keyword = m[j].keyword => i = j
    /\ \A i \in 1..Len(m) :
          m[i].color = IF m[i].keyword \in KeySet(b) THEN get(Obj(b), m[i].keyword)
                       ELSE get(Obj(a), m[i].keyword)

\* C13: when keywords or customKeywords is not a well-formed mapping from
\* string to string, safeMergeKeywords returns exactly the eight default
\* keywords; otherwise it returns keywords overlaid by customKeywords, the
\* custom color winning on a key collision.
C13_DefaultFallback ==
    gDone =>
        IF WellFormedMapping(config.keywords) /\ WellFormedMapping(config.customKeywords)
        THEN IsOverlay(gResult, config.keywords.val, config.customKeywords.val)
        ELSE gResult = getDefaultKeywords

(***************************************************************************)
(* Properties of the debounce timer                                        *)
(***************************************************************************)
\* C14: at most one debounced scan is pending, and it is the one the global
\* timeout names; an edit that schedules a scan leaves exactly the timer it
\* armed, so a timer armed before has been cancelled.
C14_SingleSlotTimer ==
    /\ [](/\ Cardinality(timers) <= 1
          /\ \A t \in timers : t.id = timeout)
    /\ [][nextTimer' = nextTimer + 1 =>
             /\ timers' = {[id |-> nextTimer, remaining |-> QuietPeriod]}
             /\ timeout' = nextTimer]_vars

\* An edit arrived while the timer of the edit before it was still pending,
\* and one timer, the new one, is armed.
C14_Witness ==
    /\ phase = "active" /\ burst >= 2 /\ sinceEdit = 0
    /\ nextTimer >= 3
    /\ timers = {[id |-> nextTimer - 1, remaining |-> QuietPeriod]}

\* C19: once deactivate has run no timer is armed and no scan runs any more:
\* a scan that was pending never executes.  (The listeners are disposed with
\* the extension's subscriptions, so no edit event arrives after deactivate.)
C19_DeactivateCancels ==
    /\ [](phase = "deactivated" => timers = {} /\ timeout = 0)
    /\ [][phase = "deactivated" =>
             /\ timerScans' = timerScans
             /\ scanRead' = scanRead
             /\ decorations' = decorations
             /\ \A i \in 1..Len(hostCalls') :
                   hostCalls'[i].op \notin {"clear", "apply"}]_vars

\* deactivate ran within the quiet period of an edit, while that edit's scan
\* was pending.
C19_Witness ==
    /\ phase = "deactivated"
    /\ burst >= 1 /\ sinceEdit < QuietPeriod /\ timerScans = 0
    /\ nextTimer >= 2
    /\ timers = {}

(***************************************************************************)
(* Properties of the matcher's result                                      *)
(***************************************************************************)
\* C15: every span of a list the matcher returns, on the literal path and on
\* the regex path, has 0 <= start < end <= text.length.
C15_SpanWellFormed ==
    (mDone /\ ~mResult.diverged) =>
        \A i \in 1..Len(mResult.ranges) :
            /\ 0 <= mResult.ranges[i].start
            /\ mResult.ranges[i].start < mResult.ranges[i].end
            /\ mResult.ranges[i].end <= Len(mText)

\* The regex path returned at least two spans, one of them three or more
\* characters wide.
C15_Witness ==
    /\ mDone /\ ~mResult.diverged
    /\ mEnableRegex /\ mKeyword = RegexTany
    /\ Len(mResult.ranges) >= 2
    /\ \E i \in 1..Len(mResult.ranges) :
          mResult.ranges[i].end - mResult.ranges[i].start >= 3

\* C20: for every text, descriptor list and keyword, literal or regex-wrapped,
\* also a user regex that can match the empty string, the matcher terminates
\* and returns a finite list of spans.
C20_MatcherTerminates == mDone => ~mResult.diverged

(***************************************************************************)
(* Edits, settings changes, editor changes and the timer together          *)
(***************************************************************************)
MaxEventEdits == 1

NextEvents ==
    \/ Activate
    \/ UserSetting
    \/ (docVersion < MaxEventEdits /\ EditDocument)
    \/ Tick
    \/ TimerFire
    \/ ChangeActiveEditor
    \/ Deactivate

SpecEvents == InitSystem /\ [][NextEvents]_vars

\* A step in which a handler of the extension ran: activate or deactivate,
\* the configuration listener, the timer callback, the editor listener.
HandlerStep ==
    \/ phase' # phase
    \/ config' # config
    \/ timerScans' = timerScans + 1
    \/ activeEditor' # activeEditor

\* A handler step that scanned the document in the editor.
ScanStep ==
    /\ HandlerStep /\ phase' = "active" /\ ~hung'
    /\ \/ phase = "inactive" /\ activeEditor
       \/ config' # config /\ activeEditor
       \/ timerScans' = timerScans + 1
       \/ ~activeEditor /\ activeEditor'

C18_NoUseAfterDispose ==
    [][HandlerStep =>
           \A i \in 1..Len(hostCalls') :
              hostCalls'[i].op \in {"clear", "apply"} =>
                 /\ hostCalls'[i].handle \notin disposed
                 /\ \A j \in 1..(i - 1) :
                       ~(hostCalls'[j].op = "dispose"
                         /\ hostCalls'[j].handle = hostCalls'[i].handle)]_vars

\* A scan applied spans after a settings change had disposed the handles of
\* an earlier registry.
C18_Witness ==
    /\ phase = "active" /\ disposed # {}
    /\ \E i \in 1..Len(hostCalls) : hostCalls[i].op = "apply"
    /\ \E i \in 1..Len(hostCalls) : hostCalls[i].op = "clear"
    /\ \A i \in 1..Len(hostCalls) : hostCalls[i].op # "dispose"
    /\ timerScans = 1

(***************************************************************************)
(* The keyword commands                                                    *)
(***************************************************************************)
MaxCommands == 2

\* Keywords the user types into addCustomKeyword's input box.
AddChoices == { HOT, <<"N", "E", "W">> }

\* delete obj[k]
deleteProp(obj, k) == SelectSeq(obj, LAMBDA e : e.keyword # k)

\* addCustomKeyword once both input boxes returned: the configuration is
\* read, the keyword set in customKeywords, and the mapping written back.
addCustomKeyword(S, keyword, color, active, editor, text, language) ==
    show(configured(S, [S.config EXCEPT !.customKeywords =
                            Obj(setProp(entriesOf(S.config.customKeywords),
                                        Entry(keyword, color)))],
                    active, editor, text, language),
         "info", "Added keyword")

\* Object.keys({ ...keywords, ...customKeywords })
keywordList(cfg) ==
    Keys(spread(entriesOf(cfg.keywords), entriesOf(cfg.customKeywords)))

\* removeKeyword after the quick pick returned selectedKeyword: customKeywords
\* is the mapping read before the quick pick was shown.
removeSelected(S, customKeywords, selectedKeyword, active, editor, text, language) ==
    IF truthy(get(customKeywords, selectedKeyword))
    THEN show(configured(S, [S.config EXCEPT !.customKeywords =
                                Obj(deleteProp(customKeywords.val, selectedKeyword))],
                         active, editor, text, language),
              "info", "Removed keyword")
    ELSE show(S, "warning", "Cannot remove built-in keyword")

\* The addCustomKeyword command with both inputs given; its input boxes take
\* the focus, so no quick pick is open.
AddKeyword ==
    /\ phase = "active" /\ ~hung /\ ~removePending.open /\ commands < MaxCommands
    /\ \E keyword \in AddChoices :
          Apply(addCustomKeyword(Cur, keyword, Red, TRUE, activeEditor, docText,
                                 docLanguage))
    /\ commands' = commands + 1
    /\ UNCHANGED <<removePending, phase, vvars, kvars, mvars, dvars, tvars, evars, gvars>>

\* removeKeyword up to the quick pick: the configuration is read here.
RemoveBegin ==
    /\ phase = "active" /\ ~hung /\ ~removePending.open /\ commands < MaxCommands
    /\ IF keywordList(config) = <<>>
       THEN /\ Apply(show(Cur, "info", "No keywords to remove"))
            /\ removePending' = NoPicker
       ELSE /\ Apply(Cur)
            /\ removePending' = [open |-> TRUE, customKeywords |-> config.customKeywords,
                                 list |-> keywordList(config)]
    /\ commands' = commands + 1
    /\ UNCHANGED <<phase, vvars, kvars, mvars, dvars, tvars, evars, gvars>>

\* The quick pick returns: an item of the list, or nothing (index 0).
RemovePick ==
    /\ removePending.open /\ ~hung
    /\ \E i \in 0..Len(removePending.list) :
          Apply(IF i = 0 THEN Cur
                ELSE removeSelected(Cur, removePending.customKeywords,
                                    removePending.list[i], phase = "active",
                                    activeEditor, docText, docLanguage))
    /\ removePending' = NoPicker
    /\ UNCHANGED <<commands, phase, vvars, kvars, mvars, dvars, tvars, evars, gvars>>

NextCommands ==
    \/ Activate
    \/ UserSetting
    \/ AddKeyword
    \/ RemoveBegin
    \/ RemovePick
    \/ Deactivate

SpecCommands == InitSystem /\ [][NextCommands]_vars

\* The step in which removeKeyword completes by removing a custom keyword.
RemovedStep ==
    /\ removePending.open /\ ~removePending'.open
    /\ \E i \in 1..Len(toasts') : toasts'[i].text = "Removed keyword"

\* C17: when removeKeyword completes by removing custom keyword k, the stored
\* customKeywords mapping is the mapping as it was immediately before the
\* write, minus k; what changed while the quick pick was open is kept.
C17_NoLostUpdate ==
    [][RemovedStep =>
          \E i \in 1..Len(removePending.list) :
             /\ truthy(get(config.customKeywords, removePending.list[i]))
             /\ config'.customKeywords =
                   Obj(deleteProp(entriesOf(config.customKeywords),
                                  removePending.list[i]))]_vars

====
